---- MODULE Spec2Model ----
(***************************************************************************)
(* A model of openclaw-a2a-server: the JSON-RPC envelope codec, the        *)
(* in-memory TaskStore, the SSE streaming engine and the request router    *)
(* of A2AServer, as one state machine driven by HTTP requests, the         *)
(* deferred transitions armed by async message/send, and the resumptions   *)
(* of streams suspended between two frame writes.                          *)
(*                                                                         *)
(* Strings the code inspects character by character (task identifiers,     *)
(* the Last-Event-ID header, prompt texts) are sequences of one-character  *)
(* strings; strings the code only compares are TLA+ strings.               *)
(* JSON values are tagged records: [t |-> "string", v |-> ...] and so on.  *)
(* createdAt / updatedAt are wall-clock stamps no operation reads back;    *)
(* they are left out of the task record.                                   *)
(***************************************************************************)
EXTENDS Integers, Sequences, FiniteSets, TLC

(***************************************************************************)
(* Bounds of the model.                                                    *)
(***************************************************************************)
\* task records the store ever allocates
MaxTasks == 2
\* streams suspended between two frame writes at the same time
MaxStreams == 1

(***************************************************************************)
(* JSON values.                                                            *)
(***************************************************************************)
Undefined == [t |-> "undefined"]
Null == [t |-> "null"]
Str(s) == [t |-> "string", v |-> s]
Num(n) == [t |-> "number", v |-> n]
Bool(b) == [t |-> "boolean", v |-> b]
Arr(s) == [t |-> "array", v |-> s]
Obj(f) == [t |-> "object", v |-> f]

\* o.k in JavaScript for a value that is an object (or reached through ?.):
\* undefined when the property is absent or o is not an object.
Field(o, k) ==
  IF o.t = "object" /\ k \in DOMAIN o.v THEN o.v[k] ELSE Undefined

\* a ?? b
Coalesce(a, b) == IF a.t \in {"undefined", "null"} THEN b ELSE a

(***************************************************************************)
(* Character strings.                                                      *)
(***************************************************************************)
\* white space as matched by String.prototype.trim and by \s
WS == {" ", "\t"}
Digits == {"0", "1", "2", "3", "4", "5", "6", "7", "8", "9"}

RECURSIVE TrimLeft(_)
TrimLeft(s) ==
  IF s # <<>> /\ Head(s) \in WS THEN TrimLeft(Tail(s)) ELSE s

RECURSIVE TrimRight(_)
TrimRight(s) ==
  IF s # <<>> /\ s[Len(s)] \in WS THEN TrimRight(SubSeq(s, 1, Len(s) - 1)) ELSE s

\* String.prototype.trim
Trim(s) == TrimRight(TrimLeft(s))

IsNotWs(c) == c \notin WS

\* s.replace(/\s+/g, "")
StripWs(s) == SelectSeq(s, IsNotWs)

(***************************************************************************)
(* src/tasks/task-store.ts                                                 *)
(***************************************************************************)
MutNormalizeTrimOnly(input) == Trim(input)

normalizeTaskId(input) == StripWs(Trim(input))

\* id(): "task-" followed by what Math.random().toString(36).slice(2, 10)
\* yields.  The draw is random and is not compared with the keys in use.
IdPrefix == <<"t", "a", "s", "k", "-">>
IdSuffixes == {<<"a">>, <<"b">>}
IdPool == {IdPrefix \o x : x \in IdSuffixes}

TERMINAL_STATES == {"succeeded", "failed", "canceled", "expired"}

\* The store: heap is the sequence of TaskRecord objects ever allocated (an
\* object is named by its index), tasks is the Map from canonical taskId to
\* the object stored under it.
EmptyStore == [heap |-> <<>>, tasks |-> <<>>]

\* Map.prototype.get: the index of the object, 0 for undefined
MapGet(S, key) == IF key \in DOMAIN S.tasks THEN S.tasks[key] ELSE 0

\* TaskStore.get
StoreGet(S, taskId) == MapGet(S, normalizeTaskId(taskId))

SeedEvent(initialMessage) ==
  [id |-> 1, state |-> "accepted", progress |-> 0,
   message |-> initialMessage, final |-> FALSE]

\* TaskStore.create, with newId the value id() returned
StoreCreate(S, newId, initialMessage) ==
  LET taskId == normalizeTaskId(newId)
      task == [taskId |-> taskId,
               state |-> "accepted",
               message |-> initialMessage,
               progress |-> 0,
               result |-> Undefined,
               events |-> <<SeedEvent(initialMessage)>>]
      ref == Len(S.heap) + 1
  IN [heap |-> Append(S.heap, task),
      tasks |-> (taskId :> ref) @@ S.tasks,
      ref |-> ref]

\* options.k ?? prior
Opt(options, k, prior) == IF k \in DOMAIN options THEN options[k] ELSE prior

MutNextEventIdFromLast(events) == events[Len(events)].id

\* task.events.length + 1
NextEventId(events) == Len(events) + 1

MutUpdateEventBeforeFields(S, taskId, state, options) ==
  LET ref == MapGet(S, normalizeTaskId(taskId))
  IN IF ref = 0 THEN S
     ELSE
       LET task == S.heap[ref]
           event == [id |-> NextEventId(task.events),
                     state |-> state,
                     progress |-> task.progress,
                     message |-> task.message,
                     final |-> Opt(options, "final", FALSE)]
       IN [S EXCEPT !.heap[ref] =
             [task EXCEPT !.state = state,
                          !.progress = Opt(options, "progress", task.progress),
                          !.message = Opt(options, "message", task.message),
                          !.result = Opt(options, "result", task.result),
                          !.events = Append(task.events, event)]]

MutUpdateFinalFromState(S, taskId, state, options) ==
  LET ref == MapGet(S, normalizeTaskId(taskId))
  IN IF ref = 0 THEN S
     ELSE
       LET task == S.heap[ref]
           progress == Opt(options, "progress", task.progress)
           message == Opt(options, "message", task.message)
           event == [id |-> NextEventId(task.events),
                     state |-> state,
                     progress |-> progress,
                     message |-> message,
                     final |-> Opt(options, "final", state \in TERMINAL_STATES)]
       IN [S EXCEPT !.heap[ref] =
             [task EXCEPT !.state = state,
                          !.progress = progress,
                          !.message = message,
                          !.result = Opt(options, "result", task.result),
                          !.events = Append(task.events, event)]]

\* TaskStore.update; options is a function on a subset of
\* {"progress", "message", "final", "result"}
StoreUpdate(S, taskId, state, options) ==
  LET ref == MapGet(S, normalizeTaskId(taskId))
  IN IF ref = 0 THEN S
     ELSE
       LET task == S.heap[ref]
           progress == Opt(options, "progress", task.progress)
           message == Opt(options, "message", task.message)
           result == Opt(options, "result", task.result)
           event == [id |-> NextEventId(task.events),
                     state |-> state,
                     progress |-> progress,
                     message |-> message,
                     final |-> Opt(options, "final", FALSE)]
       IN [S EXCEPT !.heap[ref] =
             [task EXCEPT !.state = state,
                          !.progress = progress,
                          !.message = message,
                          !.result = result,
                          !.events = Append(task.events, event)]]

(***************************************************************************)
(* src/jsonrpc.ts                                                          *)
(***************************************************************************)
\* parseJsonRpcRequest: the input itself, or null.  (An array is an object
\* to typeof, has no jsonrpc property and is rejected by the second test.)
MutParseWithoutMethod(input) ==
  IF input.t \notin {"object", "array"} THEN Null
  ELSE IF Field(input, "jsonrpc") # Str("2.0") THEN Null
  ELSE IF Field(input, "id").t \notin {"string", "number", "null"} THEN Null
  ELSE input

MutParseAnyVersion(input) ==
  IF input.t # "object" THEN Null
  ELSE IF Field(input, "method").t # "string" THEN Null
  ELSE IF Field(input, "id").t \notin {"string", "number", "null"} THEN Null
  ELSE input

parseJsonRpcRequest(input) ==
  IF input.t \notin {"object", "array"} THEN Null
  ELSE IF Field(input, "jsonrpc") # Str("2.0") THEN Null
  ELSE IF Field(input, "method").t # "string" THEN Null
  ELSE IF Field(input, "id").t \notin {"string", "number", "null"} THEN Null
  ELSE input

rpcResult(id, result) ==
  Obj([jsonrpc |-> Str("2.0"), id |-> id, result |-> result])

rpcError(id, code, message, machineCode, detail) ==
  Obj([jsonrpc |-> Str("2.0"),
       id |-> id,
       error |-> Obj([code |-> Num(code),
                      message |-> Str(message),
                      data |-> Obj([code |-> Str(machineCode),
                                    detail |-> Coalesce(detail, Str(message))])])])

(***************************************************************************)
(* src/auth.ts                                                             *)
(***************************************************************************)
MutAuthorizedAnyBearer(req, token) ==
  req.authorization.t = "string"

\* isAuthorized: req.headers.authorization === `Bearer ${token}`
isAuthorized(req, token) ==
  req.authorization = Str("Bearer " \o token)

(***************************************************************************)
(* Configuration (resolveConfig) of the server under analysis.             *)
(***************************************************************************)
AuthToken == "test-token"
Configs ==
  {[authToken |-> AuthToken, semanticMode |-> FALSE, semanticResponderUrl |-> Undefined],
   [authToken |-> AuthToken, semanticMode |-> TRUE, semanticResponderUrl |-> Undefined],
   [authToken |-> AuthToken, semanticMode |-> TRUE,
    semanticResponderUrl |-> Str("http://responder/semantic")]}

(***************************************************************************)
(* src/server.ts: the streaming engine                                     *)
(***************************************************************************)
DigitSeq == <<"0", "1", "2", "3", "4", "5", "6", "7", "8", "9">>
DigitVal(c) == (CHOOSE i \in 1..10 : DigitSeq[i] = c) - 1

RECURSIVE Decimal(_)
Decimal(s) ==
  IF s = <<>> THEN 0
  ELSE 10 * Decimal(SubSeq(s, 1, Len(s) - 1)) + DigitVal(s[Len(s)])

AllDigits(s) == s # <<>> /\ \A i \in 1..Len(s) : s[i] \in Digits

\* Number(string) on strings of white space, an optional sign and decimal
\* digits; every other string of the model's inputs converts to NaN.
\* finite is Number.isFinite of the result.
NumberOf(s) ==
  LET t == Trim(s)
      signed == t # <<>> /\ Head(t) \in {"-", "+"}
      body == IF signed THEN Tail(t) ELSE t
  IN IF t = <<>> THEN [finite |-> TRUE, n |-> 0]
     ELSE IF AllDigits(body)
       THEN [finite |-> TRUE,
             n |-> IF signed /\ Head(t) = "-" THEN 0 - Decimal(body) ELSE Decimal(body)]
       ELSE [finite |-> FALSE, n |-> 0]

MutCursorDefaultsToOne(req) ==
  LET lastSeenEventId == NumberOf(Coalesce(req.lastEventId, Str(<<"1">>)).v)
  IN IF lastSeenEventId.finite THEN lastSeenEventId.n ELSE 1

\* the cursor streamTaskEvents derives from the Last-Event-ID header
Cursor(req) ==
  LET lastSeenEventId == NumberOf(Coalesce(req.lastEventId, Str(<<"0">>)).v)
  IN IF lastSeenEventId.finite THEN lastSeenEventId.n ELSE 0

\* what writeSseEvent writes: the id line and the data payload
Frame(eventId, taskId, state, progress, message, final) ==
  [id |-> eventId, taskId |-> taskId, state |-> state,
   progress |-> progress, message |-> message, final |-> final]

IsTerminalEvent(e) == e.final \/ e.state \in TERMINAL_STATES

MutEventsAfterInclusive(events, cursor) ==
  SelectSeq(events, LAMBDA event : event.id >= cursor)

\* task.events.filter((event) => event.id > cursor)
EventsAfter(events, cursor) ==
  SelectSeq(events, LAMBDA event : event.id > cursor)

MutStreamContextWholeLog(S, req, ref) ==
  [method |-> Field(req.body, "method").v,
   ref |-> ref,
   cursor |-> Cursor(req),
   events |-> S.heap[ref].events,
   pos |-> 0,
   phase |-> "loop",
   frames |-> <<>>,
   atBuild |-> S.heap[ref]]

\* streamTaskEvents up to its loop, for a task that exists: the context the
\* suspended call keeps.  ref is the TaskRecord object the call holds, events
\* the filtered copy of its log, frames what it has written so far.
\* method (the JSON-RPC method that opened the stream) and atBuild (the
\* object as it was when the copy was taken) are kept for the record.
StreamContext(S, req, ref) ==
  LET task == S.heap[ref]
      cursor == Cursor(req)
  IN [method |-> Field(req.body, "method").v,
      ref |-> ref,
      cursor |-> cursor,
      events |-> EventsAfter(task.events, cursor),
      pos |-> 0,
      phase |-> "loop",
      frames |-> <<>>,
      atBuild |-> task]

MutNeedsSyntheticIgnoresState(ctx, task) ==
  ~\E i \in 1..Len(ctx.events) : IsTerminalEvent(ctx.events[i])

MutNeedsSyntheticNever(ctx, task) == FALSE

\* !terminalSeen && taskIsTerminal, evaluated once the loop is over
NeedsSynthetic(ctx, task) ==
  LET terminalSeen == \E i \in 1..Len(ctx.events) : IsTerminalEvent(ctx.events[i])
      taskIsTerminal == task.state \in TERMINAL_STATES
  IN ~terminalSeen /\ taskIsTerminal

MutAdvanceSyntheticAtCaptured(ctx, S) ==
  LET task == S.heap[ctx.ref]
  IN IF ctx.phase = "loop" /\ ctx.pos < Len(ctx.events)
       THEN LET event == ctx.events[ctx.pos + 1]
            IN [ctx EXCEPT !.pos = ctx.pos + 1,
                           !.frames = Append(ctx.frames,
                              Frame(event.id, task.taskId, event.state,
                                    event.progress, event.message, event.final))]
     ELSE IF ctx.phase = "loop" /\ NeedsSynthetic(ctx, task)
       THEN [ctx EXCEPT !.phase = "synthetic",
                        !.frames = Append(ctx.frames,
                           Frame(ctx.atBuild.events[Len(ctx.atBuild.events)].id,
                                 task.taskId, task.state, task.progress,
                                 task.message, TRUE))]
     ELSE [ctx EXCEPT !.phase = "ended"]

MutAdvanceWaits(ctx, S) ==
  LET task == S.heap[ctx.ref]
  IN IF ctx.phase = "loop" /\ ctx.pos < Len(ctx.events)
       THEN LET event == ctx.events[ctx.pos + 1]
            IN [ctx EXCEPT !.pos = ctx.pos + 1,
                           !.frames = Append(ctx.frames,
                              Frame(event.id, task.taskId, event.state,
                                    event.progress, event.message, event.final))]
     ELSE IF ctx.phase = "loop" /\ task.state \notin TERMINAL_STATES
       THEN ctx
     ELSE [ctx EXCEPT !.phase = "ended"]

\* One run of a streamTaskEvents call from where it stands to its next
\* await (the setImmediate of writeSseEvent) or to res.end().
Advance(ctx, S) ==
  LET task == S.heap[ctx.ref]
  IN IF ctx.phase = "loop" /\ ctx.pos < Len(ctx.events)
       THEN LET event == ctx.events[ctx.pos + 1]
            IN [ctx EXCEPT !.pos = ctx.pos + 1,
                           !.frames = Append(ctx.frames,
                              Frame(event.id, task.taskId, event.state,
                                    event.progress, event.message, event.final))]
     ELSE IF ctx.phase = "loop" /\ NeedsSynthetic(ctx, task)
       THEN [ctx EXCEPT !.phase = "synthetic",
                        !.frames = Append(ctx.frames,
                           Frame(task.events[Len(task.events)].id, task.taskId,
                                 task.state, task.progress, task.message, TRUE))]
     ELSE [ctx EXCEPT !.phase = "ended"]

(***************************************************************************)
(* src/server.ts: helpers of the router                                    *)
(***************************************************************************)
\* JSON.stringify followed by the client's JSON.parse: properties whose
\* value is undefined are not sent.
RECURSIVE Wire(_)
Wire(v) ==
  IF v.t = "object"
    THEN Obj([k \in {x \in DOMAIN v.v : v.v[x] # Undefined} |-> Wire(v.v[k])])
    ELSE v

JsonResponse(status, body) ==
  [kind |-> "json", status |-> status, body |-> Wire(body)]

EmptyResponse(status) == [kind |-> "empty", status |-> status]

\* the handler's promise rejects: nothing is written to the response
NoResponse == [kind |-> "none"]

\* the text/event-stream response of a streamTaskEvents call, whose frames
\* written so far are ctx.frames; it has ended when ctx.phase = "ended"
SseResponse(ctx) == [kind |-> "sse", status |-> 200, ctx |-> ctx]

\* unauthorized(res)
Unauthorized == JsonResponse(401, Obj([error |-> Str("unauthorized")]))

TaskNotFound(id) ==
  JsonResponse(404, rpcError(id, -32004, "Task not found", "A2A_TASK_NOT_FOUND", Undefined))

\* extractPromptText: the first non-blank text part, trimmed; throws is
\* the TypeError of for..of over a value that is not iterable.
RECURSIVE FirstText(_)
FirstText(parts) ==
  IF parts = <<>> THEN <<>>
  ELSE LET text == Field(Head(parts), "text")
       IN IF text.t = "string" /\ Len(Trim(text.v)) > 0
            THEN Trim(text.v)
            ELSE FirstText(Tail(parts))

extractPromptText(params) ==
  LET message == Coalesce(Field(params, "message"), Obj(<<>>))
      parts == Coalesce(Field(message, "parts"), Arr(<<>>))
  IN IF parts.t = "array" THEN [throws |-> FALSE, text |-> FirstText(parts.v)]
     ELSE IF parts.t = "string" THEN [throws |-> FALSE, text |-> <<>>]
     ELSE [throws |-> TRUE, text |-> <<>>]

\* String(params?.taskId ?? "") for a taskId that is a string or is absent
TaskIdParam(rpc) ==
  Coalesce(Field(Field(rpc, "params"), "taskId"), Str(<<>>)).v

ResultPayload(clientOperation, taskId) ==
  Obj([status |-> Str("accepted"),
       clientOperation |-> Str(clientOperation),
       taskId |-> Str(taskId)])

MutHydrateTwoSteps(S, taskId) ==
  LET S1 == StoreUpdate(S, taskId, "running",
              [progress |-> 35, message |-> "started", final |-> FALSE])
  IN StoreUpdate(S1, taskId, "succeeded",
       [progress |-> 100, message |-> "completed", final |-> TRUE,
        result |-> ResultPayload("message/stream", taskId)])

\* hydrateStreamTask
hydrateStreamTask(S, taskId) ==
  LET ref == StoreGet(S, taskId)
  IN IF ref = 0 THEN S
     ELSE IF \E i \in 1..Len(S.heap[ref].events) : S.heap[ref].events[i].final THEN S
     ELSE
       LET id == S.heap[ref].taskId
           S1 == StoreUpdate(S, id, "running",
                   [progress |-> 35, message |-> "started", final |-> FALSE])
           S2 == StoreUpdate(S1, id, "running",
                   [progress |-> 75, message |-> "working", final |-> FALSE])
       IN StoreUpdate(S2, id, "succeeded",
            [progress |-> 100, message |-> "completed", final |-> TRUE,
             result |-> ResultPayload("message/stream", id)])

\* The branch of route a request takes, decided in the order of its tests.
Dispatch(cfg, r) ==
  IF ~isAuthorized(r, cfg.authToken) THEN "unauthorized"
  ELSE IF r.method = "GET" /\ r.path = "/" THEN "root"
  ELSE IF r.method = "GET" /\ r.path = "/.well-known/agent-card.json" THEN "card"
  ELSE IF r.method = "POST" /\ r.path = "/a2a" THEN
    IF r.body.t = "malformed" THEN "parseError"
    ELSE
      LET rpc == parseJsonRpcRequest(r.body)
          method == Field(rpc, "method")
          executionMode == Field(Field(Field(rpc, "params"), "metadata"), "executionMode")
      IN IF rpc = Null THEN "invalidRequest"
         ELSE IF method = Str("message/send") THEN
           IF executionMode = Str("async") THEN "sendAsync"
           ELSE IF cfg.semanticMode THEN "sendSemantic"
           ELSE "sendSync"
         ELSE IF method = Str("tasks/get") THEN "tasksGet"
         ELSE IF method = Str("message/stream") THEN "stream"
         ELSE IF method = Str("tasks/resubscribe") THEN "resubscribe"
         ELSE "methodNotFound"
  ELSE "notFound"

(***************************************************************************)
(* src/server.ts: route, one operator per branch.  A handler yields the    *)
(* store it leaves, the timers it arms and the response it writes before   *)
(* it returns or first suspends.                                           *)
(***************************************************************************)
Outcome(S, arm, resp) ==
  [heap |-> S.heap, tasks |-> S.tasks, arm |-> arm, resp |-> resp]

RpcId(r) == Field(r.body, "id")

\* streamTaskEvents from its first statement to its first await or its end
streamTaskEvents(S, r, taskId) ==
  LET ref == StoreGet(S, taskId)
  IN IF ref = 0 THEN TaskNotFound(Null)
     ELSE SseResponse(Advance(StreamContext(S, r, ref), S))

HandleSendAsync(S, r, newId) ==
  LET created == StoreCreate(S, newId, "accepted")
      taskId == created.heap[created.ref].taskId
      S1 == StoreUpdate(created, taskId, "running",
              [progress |-> 40, message |-> "processing", final |-> FALSE])
  IN Outcome(S1, <<taskId>>,
       JsonResponse(200, rpcResult(RpcId(r),
         Obj([status |-> Str("accepted"),
              taskId |-> Str(taskId),
              pollMethod |-> Str("tasks/get"),
              pollAfterMs |-> Num(1000)]))))

\* callSemanticResponder, given what the responder does with the call
callSemanticResponder(cfg, prompt, out) ==
  IF cfg.semanticResponderUrl = Undefined
    THEN [ok |-> TRUE, text |-> "Jennifer response:"]
    ELSE out

HandleSendSemantic(cfg, S, r, out) ==
  LET prompt == extractPromptText(Field(r.body, "params"))
      answer == callSemanticResponder(cfg, prompt.text, out)
  IN IF prompt.throws THEN Outcome(S, <<>>, NoResponse)
     ELSE IF prompt.text = <<>>
       THEN Outcome(S, <<>>, JsonResponse(400,
              rpcError(RpcId(r), -32602, "Missing prompt text",
                       "A2A_SEMANTIC_PROMPT_MISSING", Undefined)))
     ELSE IF answer.ok
       THEN Outcome(S, <<>>, JsonResponse(200, rpcResult(RpcId(r),
              Obj([status |-> Str("accepted"),
                   clientOperation |-> Str("message/send"),
                   message |-> Obj([role |-> Str("assistant"),
                                    parts |-> Arr(<<Obj([text |-> Str(answer.text)])>>)])]))))
     ELSE Outcome(S, <<>>, JsonResponse(502,
            rpcError(RpcId(r), -32603, "Semantic dispatch failed",
                     "A2A_SEMANTIC_BRIDGE_ERROR", Str(answer.text))))

MutSendSyncCreatesTask(S, r) ==
  Outcome(StoreCreate(S, IdPrefix \o <<"a">>, "accepted"), <<>>,
    JsonResponse(200, rpcResult(RpcId(r),
      Obj([status |-> Str("accepted"), clientOperation |-> Str("message/send")]))))

HandleSendSync(S, r) ==
  Outcome(S, <<>>, JsonResponse(200, rpcResult(RpcId(r),
    Obj([status |-> Str("accepted"), clientOperation |-> Str("message/send")]))))

MutTasksGetNoLookup(S, r) ==
  Outcome(S, <<>>, TaskNotFound(Null))

HandleTasksGet(S, r) ==
  LET ref == StoreGet(S, normalizeTaskId(TaskIdParam(r.body)))
      task == S.heap[ref]
  IN IF ref = 0 THEN Outcome(S, <<>>, TaskNotFound(RpcId(r)))
     ELSE Outcome(S, <<>>, JsonResponse(200, rpcResult(RpcId(r),
            Obj([status |-> Obj([state |-> Str(task.state),
                                 message |-> Str(task.message),
                                 progress |-> Num(task.progress)]),
                 taskId |-> Str(task.taskId),
                 result |-> task.result]))))

HandleMessageStream(S, r, newId) ==
  LET created == StoreCreate(S, newId, "accepted")
      taskId == created.heap[created.ref].taskId
      S1 == hydrateStreamTask(created, taskId)
  IN Outcome(S1, <<>>, streamTaskEvents(S1, r, taskId))

MutResubscribeHydrates(S, r) ==
  LET ref == StoreGet(S, normalizeTaskId(TaskIdParam(r.body)))
      S1 == hydrateStreamTask(S, S.heap[ref].taskId)
  IN IF ref = 0 THEN Outcome(S, <<>>, TaskNotFound(RpcId(r)))
     ELSE Outcome(S1, <<>>, streamTaskEvents(S1, r, S.heap[ref].taskId))

HandleResubscribe(S, r) ==
  LET ref == StoreGet(S, normalizeTaskId(TaskIdParam(r.body)))
  IN IF ref = 0 THEN Outcome(S, <<>>, TaskNotFound(RpcId(r)))
     ELSE Outcome(S, <<>>, streamTaskEvents(S, r, S.heap[ref].taskId))

\* A2AServer.route: newId is the value id() returns if the branch creates a
\* task, out what the responder does if the branch calls it.
Handle(cfg, S, r, newId, out) ==
  LET branch == Dispatch(cfg, r)
  IN CASE branch = "unauthorized" -> Outcome(S, <<>>, Unauthorized)
       [] branch = "root" ->
            Outcome(S, <<>>, JsonResponse(200,
              Obj([ok |-> Bool(TRUE), service |-> Str("openclaw-a2a-server")])))
       [] branch = "card" ->
            Outcome(S, <<>>, JsonResponse(200,
              Obj([protocol |-> Str("a2a"), profiles |-> Arr(<<Str("standards")>>)])))
       [] branch = "parseError" ->
            Outcome(S, <<>>, JsonResponse(400,
              rpcError(Null, -32700, "Parse error", "A2A_PARSE_ERROR", Undefined)))
       [] branch = "invalidRequest" ->
            Outcome(S, <<>>, JsonResponse(400,
              rpcError(Null, -32600, "Invalid Request", "A2A_INVALID_REQUEST", Undefined)))
       [] branch = "sendAsync" -> HandleSendAsync(S, r, newId)
       [] branch = "sendSemantic" -> HandleSendSemantic(cfg, S, r, out)
       [] branch = "sendSync" -> HandleSendSync(S, r)
       [] branch = "tasksGet" -> HandleTasksGet(S, r)
       [] branch = "stream" -> HandleMessageStream(S, r, newId)
       [] branch = "resubscribe" -> HandleResubscribe(S, r)
       [] branch = "methodNotFound" ->
            Outcome(S, <<>>, JsonResponse(404,
              rpcError(RpcId(r), -32601, "Method not found",
                       "A2A_METHOD_NOT_FOUND", Undefined)))
       [] OTHER -> Outcome(S, <<>>, EmptyResponse(404))

MutDeferredWithoutFinal(S, taskId) ==
  StoreUpdate(S, taskId, "succeeded",
    [progress |-> 100, message |-> "completed",
     result |-> ResultPayload("message/send", taskId)])

\* the update the setTimeout callback of async message/send makes
deferredTransition(S, taskId) ==
  StoreUpdate(S, taskId, "succeeded",
    [progress |-> 100, final |-> TRUE, message |-> "completed",
     result |-> ResultPayload("message/send", taskId)])

(***************************************************************************)
(* Requests.  RequestSpace is the set of requests the properties range     *)
(* over; Requests, a part of it with every kind of request in it, is what  *)
(* clients send in the behaviours explored.                                *)
(***************************************************************************)
Request(authorization, method, path, body, lastEventId) ==
  [authorization |-> authorization, method |-> method, path |-> path,
   body |-> body, lastEventId |-> lastEventId]

Bearer == Str("Bearer test-token")
BadAuthorizations ==
  {Undefined, Str("Bearer wrong"), Str("Basic test-token"), Str("test-token"),
   Str("bearer test-token"), Str("Bearer test-token ")}

Envelope(id, method, params) ==
  Obj([jsonrpc |-> Str("2.0"), id |-> id, method |-> Str(method), params |-> params])

ReqIds == {Str("r1"), Num(7), Null}

TaskA == IdPrefix \o <<"a">>
TaskB == IdPrefix \o <<"b">>
Missing == <<"m", "i", "s", "s", "i", "n", "g">>
PaddedA == <<" ">> \o TaskA \o <<"\t", " ">>
\* identifiers a client sends: canonical, padded, with interior white space,
\* empty, and ones that name no task
TaskIdInputs ==
  {TaskA, PaddedA, IdPrefix \o <<" ", "a">>, <<"t", "a", "s", "k", " ", "-", "\t", "a", " ">>,
   TaskB, <<" ">> \o TaskB, Missing, <<" ">> \o Missing, <<"m", "i", "s", "s", " ", "i", "n", "g">>,
   <<>>, <<" ">>}

TextPart(text) == Obj([text |-> Str(text)])
UserMessage(parts) == Obj([role |-> Str("user"), parts |-> parts])
Hi == Obj([message |-> UserMessage(Arr(<<TextPart(<<"h", "i">>)>>))])

SendParams ==
  {Hi,
   Obj([message |-> UserMessage(Arr(<<TextPart(<<" ">>)>>))]),
   Obj([message |-> UserMessage(Num(5))]),
   Obj([metadata |-> Obj([executionMode |-> Str("sync")]), message |-> Hi])}

AsyncParams ==
  Obj([metadata |-> Obj([executionMode |-> Str("async")]),
       message |-> UserMessage(Arr(<<TextPart(<<"r", "u", "n">>)>>))])

\* Last-Event-ID headers: absent, 0 .. 6, and ones that are not numbers
LastEventIds ==
  {Undefined} \cup {Str(<<DigitSeq[i]>>) : i \in 1..7}
  \cup {Str(<<"x">>), Str(<<>>), Str(<<"-", "1">>), Str(<<"1", "0">>)}

Post(body, lastEventId) == Request(Bearer, "POST", "/a2a", body, lastEventId)
TaskParams(t) == Obj([taskId |-> Str(t)])

SendSpace ==
  {Post(Envelope(id, "message/send", p), Undefined) :
     id \in ReqIds, p \in SendParams \cup {AsyncParams}}

GetSpace ==
  {Post(Envelope(id, "tasks/get", TaskParams(t)), Undefined) :
     id \in ReqIds, t \in TaskIdInputs}
  \cup {Post(Envelope(Str("r1"), "tasks/get", Obj(<<>>)), Undefined)}

StreamSpace ==
  {Post(Envelope(id, "message/stream", Hi), h) :
     id \in ReqIds, h \in {Undefined, Str(<<"2">>)}}
  \cup {Post(Envelope(Str("r1"), "message/stream", Hi), h) : h \in LastEventIds}

ResubscribeSpace ==
  {Post(Envelope(id, "tasks/resubscribe", TaskParams(t)), h) :
     id \in ReqIds, t \in TaskIdInputs, h \in {Undefined, Str(<<"1">>)}}
  \cup {Post(Envelope(Str("r1"), "tasks/resubscribe", TaskParams(t)), h) :
          t \in {TaskA, TaskB}, h \in LastEventIds}

OtherPosts ==
  {Post([t |-> "malformed"], Undefined),
   Post(Obj([jsonrpc |-> Str("2.0"), method |-> Str("tasks/get")]), Undefined),
   Post(Arr(<<>>), Undefined),
   Post(Obj([jsonrpc |-> Str("1.0"), id |-> Str("r1"), method |-> Str("tasks/get")]),
        Undefined),
   Post(Obj([jsonrpc |-> Str("2.0"), id |-> Num(7)]), Undefined),
   Post(Envelope(Bool(TRUE), "tasks/get", TaskParams(TaskA)), Undefined),
   Post(Envelope(Str("r1"), "tasks/cancel", Obj(<<>>)), Undefined),
   Post(Envelope(Null, "tasks/cancel", Obj(<<>>)), Undefined)}

PlainRequests ==
  {Request(Bearer, "GET", "/", Undefined, Undefined),
   Request(Bearer, "GET", "/.well-known/agent-card.json", Undefined, Undefined),
   Request(Bearer, "GET", "/a2a", Undefined, Undefined),
   Request(Bearer, "POST", "/", Envelope(Str("r1"), "message/send", AsyncParams), Undefined)}

AuthorizedSpace ==
  SendSpace \cup GetSpace \cup StreamSpace \cup ResubscribeSpace
  \cup OtherPosts \cup PlainRequests

\* requests of every kind, with each authorization that is not the token's
UnauthorizedSpace ==
  {[r EXCEPT !.authorization = a] :
     a \in BadAuthorizations,
     r \in OtherPosts \cup PlainRequests
           \cup {Post(Envelope(Str("r1"), "message/send", p), Undefined) :
                   p \in {Hi, AsyncParams}}
           \cup {Post(Envelope(Str("r1"), m, TaskParams(TaskA)), h) :
                   m \in {"tasks/get", "message/stream", "tasks/resubscribe"},
                   h \in {Undefined, Str(<<"1">>)}}}

RequestSpace == AuthorizedSpace \cup UnauthorizedSpace

Requests ==
  {Request(Str("Bearer wrong"), "POST", "/a2a",
           Envelope(Str("r1"), "message/send", AsyncParams), Undefined),
   Request(Bearer, "GET", "/", Undefined, Undefined),
   Request(Bearer, "GET", "/.well-known/agent-card.json", Undefined, Undefined),
   Request(Bearer, "GET", "/a2a", Undefined, Undefined),
   Post([t |-> "malformed"], Undefined),
   Post(Arr(<<>>), Undefined),
   Post(Obj([jsonrpc |-> Str("1.0"), id |-> Str("r1"), method |-> Str("tasks/get")]),
        Undefined),
   Post(Envelope(Null, "tasks/cancel", Obj(<<>>)), Undefined),
   Post(Envelope(Str("r1"), "message/send", Hi), Undefined),
   Post(Envelope(Num(7), "message/send", AsyncParams), Undefined),
   Post(Envelope(Str("r1"), "tasks/get", TaskParams(PaddedA)), Undefined),
   Post(Envelope(Str("r1"), "tasks/get", TaskParams(Missing)), Undefined),
   Post(Envelope(Str("r1"), "message/stream", Hi), Undefined),
   Post(Envelope(Str("r1"), "tasks/resubscribe", TaskParams(TaskA)), Undefined),
   Post(Envelope(Str("r1"), "tasks/resubscribe", TaskParams(PaddedA)), Str(<<"1">>)),
   Post(Envelope(Str("r1"), "tasks/resubscribe", TaskParams(TaskA)), Str(<<"4">>)),
   Post(Envelope(Str("r1"), "tasks/resubscribe", TaskParams(Missing)), Str(<<"1">>))}

\* further message/send requests sent to a server in semantic mode
SemanticSends ==
  {Post(Envelope(Str("r1"), "message/send", p), Undefined) : p \in SendParams}

RequestsFor(c) == IF c.semanticMode THEN Requests \cup SemanticSends ELSE Requests

Branches ==
  {"unauthorized", "root", "card", "parseError", "invalidRequest", "sendAsync",
   "sendSemantic", "sendSync", "tasksGet", "stream", "resubscribe",
   "methodNotFound", "notFound"}

\* the requests sent that a server of configuration c takes down branch b
RequestsBy ==
  [c \in Configs |-> [b \in Branches |-> {r \in RequestsFor(c) : Dispatch(c, r) = b}]]

\* what the semantic responder does with one call
ResponderOutcomes ==
  {[ok |-> TRUE, text |-> "reply"],
   [ok |-> FALSE, text |-> "semantic responder HTTP 500"],
   [ok |-> FALSE, text |-> "semantic responder returned no text"],
   [ok |-> FALSE, text |-> "This operation was aborted"]}

(***************************************************************************)
(* The server.                                                             *)
(***************************************************************************)
VARIABLES
  config,   \* the ServerConfig the server was constructed with
  heap,     \* the TaskRecord objects allocated so far
  tasks,    \* TaskStore.tasks: canonical taskId -> index of its object
  timers,   \* taskIds of the armed setTimeout callbacks, in firing order
  streams,  \* the streamTaskEvents calls suspended in writeSseEvent, in the
            \* order of their pending setImmediate callbacks
  last      \* the step taken last: the request routed and its response,
            \* the timer fired, or the stream resumed and its response

vars == <<config, heap, tasks, timers, streams, last>>

Store == [heap |-> heap, tasks |-> tasks]

\* construction; the configuration is given by the specification
Start ==
  /\ heap = <<>>
  /\ tasks = <<>>
  /\ timers = <<>>
  /\ streams = <<>>
  /\ last = [kind |-> "init"]

\* the server of the integration tests: semantic mode off
Init ==
  /\ config = [authToken |-> AuthToken, semanticMode |-> FALSE,
               semanticResponderUrl |-> Undefined]
  /\ Start

\* a server in semantic bridge mode, with or without a responder URL
SemanticInit ==
  /\ config \in {c \in Configs : c.semanticMode}
  /\ Start

Suspends(resp) == resp.kind = "sse" /\ resp.ctx.phase # "ended"

\* the server takes the request r down the given branch of route
Take(r, branch, newId, out) ==
  /\ r \in RequestsBy[config][branch]
  /\ \E h \in {Handle(config, Store, r, newId, out)} :
        /\ Len(h.heap) <= MaxTasks
        /\ Suspends(h.resp) => Len(streams) < MaxStreams
        /\ heap' = h.heap
        /\ tasks' = h.tasks
        /\ timers' = timers \o h.arm
        /\ streams' = IF Suspends(h.resp) THEN Append(streams, h.resp.ctx) ELSE streams
        /\ last' = [kind |-> "route", req |-> r, resp |-> h.resp]
  /\ UNCHANGED config

NoId == <<>>
NoOutcome == [ok |-> FALSE, text |-> ""]

RouteUnauthorized ==
  \E r \in RequestsBy[config]["unauthorized"] : Take(r, "unauthorized", NoId, NoOutcome)
RouteRoot ==
  \E r \in RequestsBy[config]["root"] : Take(r, "root", NoId, NoOutcome)
RouteCard ==
  \E r \in RequestsBy[config]["card"] : Take(r, "card", NoId, NoOutcome)
RouteParseError ==
  \E r \in RequestsBy[config]["parseError"] : Take(r, "parseError", NoId, NoOutcome)
RouteInvalidRequest ==
  \E r \in RequestsBy[config]["invalidRequest"] : Take(r, "invalidRequest", NoId, NoOutcome)
RouteSendAsync ==
  \E r \in RequestsBy[config]["sendAsync"], newId \in IdPool :
    Take(r, "sendAsync", newId, NoOutcome)
RouteSendSemantic ==
  \E r \in RequestsBy[config]["sendSemantic"], out \in ResponderOutcomes :
    Take(r, "sendSemantic", NoId, out)
RouteSendSync ==
  \E r \in RequestsBy[config]["sendSync"] : Take(r, "sendSync", NoId, NoOutcome)
RouteTasksGet ==
  \E r \in RequestsBy[config]["tasksGet"] : Take(r, "tasksGet", NoId, NoOutcome)
RouteMessageStream ==
  \E r \in RequestsBy[config]["stream"], newId \in IdPool :
    Take(r, "stream", newId, NoOutcome)
RouteResubscribe ==
  \E r \in RequestsBy[config]["resubscribe"] : Take(r, "resubscribe", NoId, NoOutcome)
RouteMethodNotFound ==
  \E r \in RequestsBy[config]["methodNotFound"] : Take(r, "methodNotFound", NoId, NoOutcome)
RouteNotFound ==
  \E r \in RequestsBy[config]["notFound"] : Take(r, "notFound", NoId, NoOutcome)

\* A2AServer.route on the requests both configurations treat alike
RouteCommon ==
  \/ RouteUnauthorized
  \/ RouteRoot
  \/ RouteCard
  \/ RouteParseError
  \/ RouteInvalidRequest
  \/ RouteSendAsync
  \/ RouteTasksGet
  \/ RouteMessageStream
  \/ RouteResubscribe
  \/ RouteMethodNotFound
  \/ RouteNotFound

\* the setTimeout callback armed first fires
DeferredTransition ==
  /\ timers # <<>>
  /\ LET S == deferredTransition(Store, Head(timers))
     IN /\ heap' = S.heap
        /\ tasks' = S.tasks
  /\ last' = [kind |-> "timer", taskId |-> Head(timers)]
  /\ timers' = Tail(timers)
  /\ UNCHANGED <<config, streams>>

\* the setImmediate callback queued first runs: the streamTaskEvents call
\* that has waited longest goes on to its next await, where it queues
\* another callback behind those of the other streams, or to res.end()
ResumeStream ==
  /\ streams # <<>>
  /\ LET ctx == Advance(Head(streams), Store)
     IN /\ last' = [kind |-> "resume", resp |-> SseResponse(ctx)]
        /\ streams' =
             IF ctx.phase = "ended" THEN Tail(streams) ELSE Append(Tail(streams), ctx)
  /\ UNCHANGED <<config, heap, tasks, timers>>

Background ==
  \/ DeferredTransition
  \/ ResumeStream

Next ==
  \/ RouteCommon
  \/ RouteSendSync
  \/ Background

SemanticNext ==
  \/ RouteCommon
  \/ RouteSendSemantic
  \/ Background

Spec == Init /\ [][Next]_vars

SemanticSpec == SemanticInit /\ [][SemanticNext]_vars

\* every timer armed fires, and every suspended stream is resumed
LiveSpec ==
  /\ Spec
  /\ WF_vars(DeferredTransition)
  /\ WF_vars(ResumeStream)

TypeOK ==
  /\ Len(heap) <= MaxTasks
  /\ Len(streams) <= MaxStreams
  /\ RequestsFor(config) \subseteq RequestSpace

(***************************************************************************)
(* Properties.                                                             *)
(***************************************************************************)
\* the stream whose response the last step wrote to, if it wrote to one
LastCtx ==
  IF last.kind \in {"route", "resume"} /\ last.resp.kind = "sse"
    THEN {last.resp.ctx} ELSE {}

\* every stream in view: the suspended ones and the one just written to
AllCtx == {streams[i] : i \in 1..Len(streams)} \cup LastCtx

\* the stream that ended in the last step, if one did
EndedCtx == {ctx \in LastCtx : ctx.phase = "ended"}

\* white space removed from everywhere in an identifier
Squeeze(s) == SelectSeq(s, LAMBDA c : c # " " /\ c # "\t")

\* a streamTaskEvents call run to its end with the store left as it is
RECURSIVE Finish(_, _)
Finish(ctx, S) == IF ctx.phase = "ended" THEN ctx ELSE Finish(Advance(ctx, S), S)

EndsFinal(ctx) == ctx.frames # <<>> /\ ctx.frames[Len(ctx.frames)].final

\* streams opened on the stored tasks with every Last-Event-ID of the model
CursorProbes ==
  {Post(Envelope(Str("r1"), "tasks/resubscribe", TaskParams(t)), h) :
     t \in DOMAIN tasks, h \in LastEventIds}

\* C1: a stream built on a task that is terminal at that moment ends with a
\* frame carrying final = true, whatever the cursor: for each stream that
\* has ended in a behaviour, and for a stream opened in any reachable state
\* with any Last-Event-ID and run to its end.
C1_TerminalStreamEndsFinal ==
  /\ \A ctx \in EndedCtx :
       ctx.atBuild.state \in TERMINAL_STATES => EndsFinal(ctx)
  /\ \A r \in CursorProbes :
       LET resp == HandleResubscribe(Store, r).resp
       IN /\ resp.kind = "sse"
          /\ resp.ctx.atBuild.state \in TERMINAL_STATES
               => EndsFinal(Finish(resp.ctx, Store))
  /\ \A h \in LastEventIds, newId \in IdPool :
       LET made == HandleMessageStream(Store,
                     Post(Envelope(Str("r1"), "message/stream", Hi), h), newId)
       IN /\ made.resp.kind = "sse"
          /\ made.resp.ctx.atBuild.state \in TERMINAL_STATES
          /\ EndsFinal(Finish(made.resp.ctx, made))

\* a resumed stream of a terminal task whose cursor is at or past the last
\* event has ended, its only frame the synthetic one
C1_Witness ==
  \E ctx \in EndedCtx :
    /\ last.kind = "resume"
    /\ ctx.atBuild.state \in TERMINAL_STATES
    /\ ctx.cursor >= Len(ctx.atBuild.events)
    /\ Len(ctx.frames) = 1

\* the frames a stream has replayed from the log (a synthetic frame, if
\* any, comes after them)
Replayed(ctx) == SubSeq(ctx.frames, 1, ctx.pos)

SameSnapshot(frame, e) ==
  /\ frame.id = e.id
  /\ frame.state = e.state
  /\ frame.progress = e.progress
  /\ frame.message = e.message
  /\ frame.final = e.final

\* C2: the frames a stream replays are the events of the log, as it was when
\* the stream was built, whose id is greater than the cursor: each of them
\* once, in ascending order of id, and all of them once the replay is over.
\* Cursor 0 starts at id 1; cursor 1 on a three-event log gives 2 and 3 only.
C2_ReplayIsLogAfterCursor ==
  \A ctx \in AllCtx :
    LET log == ctx.atBuild.events
        replay == Replayed(ctx)
    IN /\ \A i \in 1..Len(replay) :
            /\ replay[i].id > ctx.cursor
            /\ \E j \in 1..Len(log) : SameSnapshot(replay[i], log[j])
       /\ \A i \in 1..(Len(replay) - 1) : replay[i].id < replay[i + 1].id
       /\ ctx.phase # "loop" =>
            \A j \in 1..Len(log) :
              log[j].id > ctx.cursor => \E i \in 1..Len(replay) : replay[i].id = log[j].id
       /\ (ctx.cursor = 0 /\ replay # <<>>) => replay[1].id = 1
       /\ (ctx.phase = "ended" /\ ctx.cursor = 1 /\ Len(log) = 3) =>
            /\ Len(ctx.frames) = 2
            /\ ctx.frames[1].id = 2
            /\ ctx.frames[2].id = 3

\* a stream resumed from cursor 1 on a three-event log has ended
C2_Witness ==
  \E ctx \in EndedCtx :
    /\ ctx.cursor = 1
    /\ Len(ctx.atBuild.events) = 3
    /\ Len(ctx.frames) = 2

UpdateProbes ==
  {[progress |-> 50, message |-> "m", final |-> FALSE], [final |-> TRUE], <<>>}

\* C3: the ids of every task's log are 1, 2, ..., k in that order: create
\* leaves a log of one event with id 1, and each update of an existing task
\* appends exactly one event, whose id is the length the log then has.
C3_LogIdsContiguous ==
  /\ \A ref \in 1..Len(heap) :
       \A i \in 1..Len(heap[ref].events) : heap[ref].events[i].id = i
  /\ \A newId \in IdPool :
       LET created == StoreCreate(Store, newId, "accepted")
           log == created.heap[created.ref].events
       IN Len(log) = 1 /\ log[1].id = 1
  /\ \A key \in DOMAIN tasks, options \in UpdateProbes :
       LET before == heap[tasks[key]].events
           after == StoreUpdate(Store, key, "running", options).heap[tasks[key]].events
       IN /\ Len(after) = Len(before) + 1
          /\ SubSeq(after, 1, Len(before)) = before
          /\ after[Len(after)].id = Len(before) + 1

\* a task updated three times or more after its creation
C3_Witness ==
  \E ref \in 1..Len(heap) : Len(heap[ref].events) >= 4

\* C4: a request whose Authorization header is not "Bearer <token>" is
\* answered 401 {error: unauthorized} whatever its method, path and body,
\* and the handler changes nothing: no task, no event, no timer, no stream.
C4_UnauthorizedChangesNothing ==
  \A r \in UnauthorizedSpace, newId \in IdPool :
    LET h == Handle(config, Store, r, newId, NoOutcome)
    IN /\ h.resp.kind = "json"
       /\ h.resp.status = 401
       /\ h.resp.body = Obj([error |-> Str("unauthorized")])
       /\ h.heap = heap
       /\ h.tasks = tasks
       /\ h.arm = <<>>

\* an async message/send with a wrong token has been refused by a server
\* that holds tasks
C4_Witness ==
  /\ last.kind = "route"
  /\ last.req.authorization = Str("Bearer wrong")
  /\ Field(last.req.body, "method") = Str("message/send")
  /\ last.resp.status = 401
  /\ heap # <<>>

GetRequest(id, t) == Post(Envelope(id, "tasks/get", TaskParams(t)), Undefined)

\* tasks/get on x answers succeeded, progress 100 and the result payload
\* of the deferred transition of x
GetSucceeded(x) ==
  \E resp \in {HandleTasksGet(Store, GetRequest(Str("r1"), x)).resp} :
    \E result \in {Field(resp.body, "result")} :
      /\ resp.status = 200
      /\ Field(Field(result, "status"), "state") = Str("succeeded")
      /\ Field(Field(result, "status"), "progress") = Num(100)
      /\ Field(Field(result, "result"), "clientOperation") = Str("message/send")
      /\ Field(Field(result, "result"), "taskId") = Str(x)

\* the last step answered an async message/send with status accepted and x
AcceptedAsync(x) ==
  /\ last.kind = "route"
  /\ Dispatch(config, last.req) = "sendAsync"
  /\ last.resp.status = 200
  /\ Field(Field(last.resp.body, "result"), "status") = Str("accepted")
  /\ Field(Field(last.resp.body, "result"), "taskId") = Str(x)

\* the deferred transition of an async message/send has run on this record
TransitionRan(task) ==
  Field(task.result, "clientOperation") = Str("message/send")

\* C5: once the deferred transition of an async message/send has run on the
\* task it created, every tasks/get on that task's taskId returns state
\* succeeded, progress 100 and a result payload with the same taskId: in
\* every state, and for every task whose transition has run.
C5_AsyncTaskStaysSucceeded ==
  \A ref \in 1..Len(heap) :
    TransitionRan(heap[ref]) => GetSucceeded(heap[ref].taskId)

\* the part of C5 that is about progress: an async message/send answered
\* accepted with a taskId leads to a state where tasks/get on that taskId
\* answers succeeded
AsyncTaskEventuallySucceeds ==
  \A x \in IdPool : AcceptedAsync(x) ~> GetSucceeded(x)

\* C6: two identifiers that are equal once all white space is removed get
\* the same answer from tasks/get and from tasks/resubscribe in the same
\* store state: the record stored under the canonical identifier, or the
\* same task-not-found error.
C6_LookupIgnoresWhitespace ==
  \A t1 \in TaskIdInputs, t2 \in TaskIdInputs :
    Squeeze(t1) = Squeeze(t2) =>
      /\ \A id \in ReqIds :
           LET g1 == HandleTasksGet(Store, GetRequest(id, t1))
               g2 == HandleTasksGet(Store, GetRequest(id, t2))
           IN /\ g1 = g2
              /\ IF Squeeze(t1) \in DOMAIN tasks
                   THEN /\ g1.resp.status = 200
                        /\ Field(Field(g1.resp.body, "result"), "taskId")
                             = Str(heap[tasks[Squeeze(t1)]].taskId)
                        /\ heap[tasks[Squeeze(t1)]].taskId = Squeeze(t1)
                   ELSE g1.resp = TaskNotFound(id)
      /\ \A h \in {Undefined, Str(<<"1">>)} :
           LET s1 == HandleResubscribe(Store,
                       Post(Envelope(Str("r1"), "tasks/resubscribe", TaskParams(t1)), h))
               s2 == HandleResubscribe(Store,
                       Post(Envelope(Str("r1"), "tasks/resubscribe", TaskParams(t2)), h))
           IN /\ s1 = s2
              /\ (s1.resp.kind = "sse") = (Squeeze(t1) \in DOMAIN tasks)

\* a tasks/get with a padded identifier has been answered with the record
\* of the task it names
C6_Witness ==
  /\ last.kind = "route"
  /\ Dispatch(config, last.req) = "tasksGet"
  /\ TaskIdParam(last.req.body) = PaddedA
  /\ last.resp.status = 200
  /\ Field(Field(last.resp.body, "result"), "taskId") = Str(TaskA)

IsTaskNotFound(resp, id) ==
  /\ resp.kind = "json"
  /\ resp.status = 404
  /\ Field(resp.body, "id") = id
  /\ Field(Field(resp.body, "error"), "code") = Num(-32004)
  /\ Field(Field(Field(resp.body, "error"), "data"), "code") = Str("A2A_TASK_NOT_FOUND")

\* C7: tasks/get and tasks/resubscribe on an identifier that names no task
\* answer 404 with error code -32004, data.code A2A_TASK_NOT_FOUND and the
\* id of the request, write no frame and leave the store as it was.
C7_UnknownTaskNotFound ==
  \A r \in GetSpace \cup ResubscribeSpace :
    Squeeze(TaskIdParam(r.body)) \notin DOMAIN tasks =>
      LET h == Handle(config, Store, r, TaskA, NoOutcome)
      IN /\ IsTaskNotFound(h.resp, RpcId(r))
         /\ h.heap = heap
         /\ h.tasks = tasks
         /\ h.arm = <<>>

\* a tasks/resubscribe on an unknown identifier has been answered 404 by a
\* server that holds tasks
C7_Witness ==
  /\ last.kind = "route"
  /\ Dispatch(config, last.req) = "resubscribe"
  /\ IsTaskNotFound(last.resp, Str("r1"))
  /\ heap # <<>>

FrameIds(frames) == [i \in 1..Len(frames) |-> frames[i].id]
FrameStates(frames) == [i \in 1..Len(frames) |-> frames[i].state]
FrameFinals(frames) == [i \in 1..Len(frames) |-> frames[i].final]

Lifecycle(frames) ==
  /\ FrameIds(frames) = <<1, 2, 3, 4>>
  /\ FrameStates(frames) = <<"accepted", "running", "running", "succeeded">>
  /\ FrameFinals(frames) = <<FALSE, FALSE, FALSE, TRUE>>

\* C8: a message/stream call without Last-Event-ID makes a record that was
\* not there before, whose log holds its whole lifecycle before the first
\* frame is written, and answers with an event stream of four frames: ids
\* 1, 2, 3, 4, states accepted, running, running, succeeded, final on the
\* last one only.
C8_MessageStreamLifecycle ==
  /\ \A ctx \in EndedCtx :
       (ctx.method = "message/stream" /\ ctx.cursor = 0) => Lifecycle(ctx.frames)
  /\ \A r \in StreamSpace, newId \in IdPool :
       r.lastEventId = Undefined =>
         LET h == Handle(config, Store, r, newId, NoOutcome)
             ref == Len(heap) + 1
         IN /\ Len(h.heap) = ref
            /\ SubSeq(h.heap, 1, Len(heap)) = heap
            /\ h.tasks[newId] = ref
            /\ h.heap[ref].state = "succeeded"
            /\ Lifecycle(h.heap[ref].events)
            /\ h.resp.kind = "sse"
            /\ h.resp.status = 200
            /\ h.resp.ctx.ref = ref
            /\ h.resp.ctx.events = h.heap[ref].events
            /\ Len(h.resp.ctx.frames) = 1
            /\ Lifecycle(Finish(h.resp.ctx, h).frames)

\* the stream of a message/stream call has ended after its fourth frame
C8_Witness ==
  \E ctx \in EndedCtx :
    /\ last.kind = "resume"
    /\ ctx.method = "message/stream"
    /\ Len(ctx.frames) = 4

\* the last step was taken by a tasks/resubscribe call: its handler, or
\* the resumption of the stream it opened
ByResubscribe ==
  \/ last.kind = "route" /\ Dispatch(config, last.req) = "resubscribe"
  \/ last.kind = "resume" /\ last.resp.ctx.method = "tasks/resubscribe"

\* C9: tasks/resubscribe changes no task: no step of a tasks/resubscribe
\* call, from its handler to the end of its stream, changes a record, adds
\* an event, creates a task or arms a timer, whatever the identifier and
\* the cursor and whether or not a synthetic frame is written.
C9_ResubscribeMutatesNothing ==
  /\ [](\A r \in ResubscribeSpace :
          LET h == Handle(config, Store, r, TaskA, NoOutcome)
          IN h.heap = heap /\ h.tasks = tasks /\ h.arm = <<>>)
  /\ [][ByResubscribe' => UNCHANGED <<heap, tasks, timers>>]_vars

\* a resubscribe stream has ended with a synthetic frame after its replay
C9_Witness ==
  \E ctx \in EndedCtx :
    /\ ctx.method = "tasks/resubscribe"
    /\ ctx.pos >= 1
    /\ Len(ctx.frames) = ctx.pos + 1

\* C10: with semantic mode off, a message/send that is not async answers
\* 200 with the id of the request and result.clientOperation
\* "message/send", and leaves the store as it was: no task, no event.
C10_SyncSendCreatesNothing ==
  \A r \in SendSpace :
    Dispatch(config, r) = "sendSync" =>
      \A newId \in IdPool :
        LET h == Handle(config, Store, r, newId, NoOutcome)
        IN /\ h.resp.kind = "json"
           /\ h.resp.status = 200
           /\ Field(h.resp.body, "id") = RpcId(r)
           /\ Field(Field(h.resp.body, "result"), "clientOperation") = Str("message/send")
           /\ h.heap = heap
           /\ h.tasks = tasks
           /\ h.arm = <<>>

\* a plain message/send has been answered by a server that holds tasks
C10_Witness ==
  /\ last.kind = "route"
  /\ Dispatch(config, last.req) = "sendSync"
  /\ last.resp.status = 200
  /\ ~config.semanticMode
  /\ heap # <<>>

\* the id a POST /a2a body carries: the id property of a JSON object when it
\* is a string, a number or null; null when the body has no such id
ReceivedId(body) ==
  IF body.t = "object" /\ Field(body, "id").t \in {"string", "number", "null"}
    THEN Field(body, "id")
    ELSE Null

\* the response is a JSON-RPC envelope
IsEnvelope(resp) ==
  resp.kind = "json" /\ Field(resp.body, "jsonrpc") = Str("2.0")

\* the last step was route answering an authorized POST /a2a
AnsweredPost ==
  /\ last.kind = "route"
  /\ last.req.method = "POST"
  /\ last.req.path = "/a2a"
  /\ isAuthorized(last.req, config.authToken)

\* C11: every JSON-RPC envelope, result or error, written in answer to a
\* POST /a2a carries the id of the body received, exactly as received, and
\* null only when the body carries no id.
C11_EnvelopeEchoesReceivedId ==
  (AnsweredPost /\ IsEnvelope(last.resp)) =>
    Field(last.resp.body, "id") = ReceivedId(last.req.body)

\* a decoded body that is a JSON-RPC 2.0 request envelope
ValidEnvelope(body) ==
  /\ body.t = "object"
  /\ Field(body, "jsonrpc") = Str("2.0")
  /\ Field(body, "method").t = "string"
  /\ Field(body, "id").t \in {"string", "number", "null"}

KnownMethods ==
  {Str("message/send"), Str("tasks/get"), Str("message/stream"), Str("tasks/resubscribe")}

IsRpcError(resp, status, code) ==
  /\ IsEnvelope(resp)
  /\ resp.status = status
  /\ Field(Field(resp.body, "error"), "code") = Num(code)

IsRoute(r) ==
  \/ r.method = "GET" /\ r.path \in {"/", "/.well-known/agent-card.json"}
  \/ r.method = "POST" /\ r.path = "/a2a"

\* C12: an authorized POST /a2a whose body is not JSON is answered 400 with
\* -32700; one whose body is JSON but no valid envelope, 400 with -32600; a
\* valid envelope of a method that is none of the four, 404 with -32601 and
\* the envelope's id; none of the three changes the store.  A method and
\* path other than GET /, GET /.well-known/agent-card.json and POST /a2a is
\* answered 404 with an empty body.
C12_PostClassifiedInOrder ==
  \A r \in AuthorizedSpace :
    LET h == Handle(config, Store, r, TaskA, NoOutcome)
        unchanged == h.heap = heap /\ h.tasks = tasks /\ h.arm = <<>>
    IN IF ~IsRoute(r) THEN h.resp = EmptyResponse(404) /\ unchanged
       ELSE IF r.method # "POST" THEN TRUE
       ELSE IF r.body.t = "malformed" THEN IsRpcError(h.resp, 400, -32700) /\ unchanged
       ELSE IF ~ValidEnvelope(r.body) THEN IsRpcError(h.resp, 400, -32600) /\ unchanged
       ELSE IF Field(r.body, "method") \notin KnownMethods
         THEN /\ IsRpcError(h.resp, 404, -32601)
              /\ Field(h.resp.body, "id") = Field(r.body, "id")
              /\ unchanged
       ELSE ~IsRpcError(h.resp, 400, -32700)
            /\ ~IsRpcError(h.resp, 400, -32600)
            /\ ~IsRpcError(h.resp, 404, -32601)

\* an unknown method has been answered method-not-found by a server that
\* holds tasks
C12_Witness ==
  /\ AnsweredPost
  /\ IsRpcError(last.resp, 404, -32601)
  /\ Field(last.req.body, "method") = Str("tasks/cancel")
  /\ heap # <<>>

IsPrefix(s, t) == Len(s) <= Len(t) /\ SubSeq(t, 1, Len(s)) = s

\* C13: the log stored under a taskId only grows: in every step, each
\* taskId of the store is still in the store and the log stored under it
\* before the step is a prefix of the log stored under it after the step.
C13_LogAppendOnly ==
  [][\A x \in DOMAIN tasks :
       /\ x \in DOMAIN tasks'
       /\ IsPrefix(heap[tasks[x]].events, heap'[tasks'[x]].events)]_vars

\* the same for each record object: no step removes or changes an event of
\* a record the store has allocated
RecordLogAppendOnly ==
  [][\A ref \in 1..Len(heap) :
       /\ ref <= Len(heap')
       /\ IsPrefix(heap[ref].events, heap'[ref].events)]_vars

\* C14: terminal states are absorbing: no step changes a task record whose
\* state is succeeded, failed, canceled or expired: its state stays and no
\* event is appended to its log.
C14_TerminalAbsorbing ==
  [][\A ref \in 1..Len(heap) :
       heap[ref].state \in TERMINAL_STATES =>
         /\ heap'[ref].state = heap[ref].state
         /\ heap'[ref].events = heap[ref].events]_vars

\* the same for the task a taskId names
TerminalTaskIdAbsorbing ==
  [][\A x \in DOMAIN tasks :
       heap[tasks[x]].state \in TERMINAL_STATES =>
         /\ x \in DOMAIN tasks'
         /\ heap'[tasks'[x]].state = heap[tasks[x]].state
         /\ heap'[tasks'[x]].events = heap[tasks[x]].events]_vars

\* C15: create allocates a fresh identifier: every step that allocates a
\* record stores it under a taskId that was the key of no record, and
\* leaves every taskId of the store naming the record it named; get on the
\* new taskId returns the new record.
C15_CreateAllocatesFreshId ==
  [][Len(heap') > Len(heap) =>
       LET created == heap'[Len(heap')]
       IN /\ created.taskId \notin DOMAIN tasks
          /\ \A x \in DOMAIN tasks : x \in DOMAIN tasks' /\ tasks'[x] = tasks[x]
          /\ tasks'[created.taskId] = Len(heap')]_vars

\* every record the store has allocated is the one its taskId names
NoRecordHidden ==
  \A ref \in 1..Len(heap) : MapGet(Store, heap[ref].taskId) = ref

\* what create returns, whatever id() returns: get on its taskId gives the
\* new record, with one event of id 1, state accepted, progress 0, not final
CreateReturnsSeededRecord ==
  \A newId \in IdPool :
    LET created == StoreCreate(Store, newId, "accepted")
        task == created.heap[created.ref]
    IN /\ StoreGet(created, task.taskId) = created.ref
       /\ task.state = "accepted"
       /\ task.progress = 0
       /\ task.events = <<[id |-> 1, state |-> "accepted", progress |-> 0,
                           message |-> "accepted", final |-> FALSE]>>

\* C16: every authorized request ends with one response: a JSON-RPC
\* envelope, an event stream or a bare status; the handler never stops
\* without having written one.
C16_EveryRequestAnswered ==
  (last.kind = "route" /\ isAuthorized(last.req, config.authToken)) =>
    last.resp.kind \in {"json", "sse", "empty"}

\* the same for every request of the model in every reachable state, with
\* every identifier id() can return and every outcome of the responder
EveryRequestAnswerable ==
  \A r \in AuthorizedSpace \cup SemanticSends, newId \in IdPool, out \in ResponderOutcomes :
    Handle(config, Store, r, newId, out).resp.kind \in {"json", "sse", "empty"}

\* a stream has written no more than the events it captured and one
\* synthetic frame, and has ended only after the captured events
FramesBounded(ctx) ==
  /\ ctx.events = EventsAfter(ctx.atBuild.events, ctx.cursor)
  /\ ctx.pos <= Len(ctx.events)
  /\ Len(ctx.frames) <= Len(ctx.events) + 1
  /\ Len(ctx.frames) \in (IF ctx.phase = "loop" THEN {ctx.pos} ELSE {ctx.pos, ctx.pos + 1})
  /\ ctx.phase # "loop" => ctx.pos = Len(ctx.events)

\* the number of runs a stream has left at most: one per captured event
\* not yet written, one for the synthetic frame, one to end
Remaining(ctx) ==
  (Len(ctx.events) - ctx.pos)
  + (IF ctx.phase = "loop" THEN 2 ELSE IF ctx.phase = "synthetic" THEN 1 ELSE 0)

\* a step that resumes a stream takes the one that has waited longest,
\* brings it strictly nearer to its end, and queues it behind the others
\* unless it has ended; any other step leaves the waiting streams in place,
\* a new one going behind them
StreamsAdvance ==
  IF last'.kind = "resume"
    THEN /\ streams # <<>>
         /\ Remaining(last'.resp.ctx) < Remaining(Head(streams))
         /\ streams' = IF last'.resp.ctx.phase = "ended"
                         THEN Tail(streams)
                         ELSE Append(Tail(streams), last'.resp.ctx)
    ELSE /\ Len(streams') >= Len(streams)
         /\ SubSeq(streams', 1, Len(streams)) = streams

\* C17: a stream never waits for future events: it writes at most the
\* events captured when it was built and one synthetic frame; each time it
\* is resumed it comes strictly nearer to its end, and while streams are
\* open one of them is resumed again and again, so every stream ends, also
\* when its task is not terminal; a tasks/resubscribe stream that ends
\* while its task is still not terminal has written the captured events
\* and no frame with final = true.
C17_StreamsEndWithoutWaiting ==
  /\ [](\A ctx \in AllCtx : FramesBounded(ctx))
  /\ [](\A ctx \in EndedCtx :
          heap[ctx.ref].state \notin TERMINAL_STATES =>
            /\ Len(ctx.frames) = Len(ctx.events)
            /\ \A i \in 1..Len(ctx.frames) : ~ctx.frames[i].final)
  /\ [][StreamsAdvance]_vars
  /\ []<>(streams = <<>> \/ last.kind = "resume")

\* a tasks/resubscribe on an async task has ended, with the frames of the
\* accepted and running snapshots only, before the deferred transition ran
C17_Witness ==
  \E ctx \in EndedCtx :
    /\ ctx.method = "tasks/resubscribe"
    /\ heap[ctx.ref].state = "running"
    /\ timers # <<>>
    /\ FrameStates(ctx.frames) = <<"accepted", "running">>
    /\ FrameFinals(ctx.frames) = <<FALSE, FALSE>>

\* C18 as stated: every frame a stream writes, the synthetic frame
\* included, has an id strictly greater than the cursor it was built with.
C18_EveryFrameAfterCursor ==
  \A ctx \in AllCtx :
    \A i \in 1..Len(ctx.frames) : ctx.frames[i].id > ctx.cursor

\* C18, amended: every frame a stream replays from the log has an id
\* strictly greater than the cursor; the synthetic frame, which is final and
\* is the last frame, has an id at or below the cursor exactly when the
\* stream had no event to replay, and then it is the id of the last event of
\* the log.
C18_ReplayedFramesAfterCursor ==
  \A ctx \in AllCtx :
    /\ \A i \in 1..ctx.pos : ctx.frames[i].id > ctx.cursor
    /\ Len(ctx.frames) > ctx.pos =>
         LET synthetic == ctx.frames[Len(ctx.frames)]
         IN /\ Len(ctx.frames) = ctx.pos + 1
            /\ synthetic.final
            /\ (synthetic.id <= ctx.cursor) = (ctx.events = <<>>)
            /\ ctx.events = <<>> => synthetic.id = Len(ctx.atBuild.events)

\* a stream resumed with Last-Event-ID 4 on a task of four events has
\* written the synthetic frame, with id 4
C18_Witness ==
  \E ctx \in AllCtx :
    /\ ctx.cursor = 4
    /\ ctx.pos = 0
    /\ Len(ctx.frames) = 1
    /\ ctx.frames[1].id = 4

HasFinalEvent(task) == \E i \in 1..Len(task.events) : task.events[i].final

\* C19: in every reachable state, every task whose state is terminal has an
\* event with final = true in its log, and that event is the last of the
\* log, where a reader of the whole log finds it.
C19_TerminalTaskHasFinalEvent ==
  \A ref \in 1..Len(heap) :
    heap[ref].state \in TERMINAL_STATES =>
      /\ HasFinalEvent(heap[ref])
      /\ heap[ref].events[Len(heap[ref].events)].final

\* an async task has been completed by its deferred transition, and a
\* streamed task by hydrateStreamTask
C19_Witness ==
  /\ \E ref \in 1..Len(heap) :
       /\ heap[ref].state = "succeeded"
       /\ TransitionRan(heap[ref])
       /\ Len(heap[ref].events) = 3
  /\ \E ref \in 1..Len(heap) :
       /\ heap[ref].state = "succeeded"
       /\ Field(heap[ref].result, "clientOperation") = Str("message/stream")

\* Last-Event-ID headers that are absent or that Number() converts to NaN
\* or to an infinity
NotNumericIds ==
  {Undefined, Str(<<"x">>), Str(<<"1", "x">>), Str(<<"-">>),
   Str(<<"I", "n", "f", "i", "n", "i", "t", "y">>)}

Resubscribe(t, h) == Post(Envelope(Str("r1"), "tasks/resubscribe", TaskParams(t)), h)

\* the frames of a whole log: one frame per event, in order, from event 1
IsWholeLog(frames, task) ==
  /\ Len(frames) = Len(task.events)
  /\ \A i \in 1..Len(frames) :
       /\ frames[i].id = i
       /\ frames[i].taskId = task.taskId
       /\ SameSnapshot(frames[i], task.events[i])

\* C20: with a Last-Event-ID header that is absent or not numeric the
\* cursor is 0 and the stream, run to its end, replays the whole log of the
\* task from event 1: the same frames as with an explicit Last-Event-ID
\* of 0, for tasks/resubscribe on every stored task and for message/stream.
C20_NoCursorMeansWholeLog ==
  \A h \in NotNumericIds :
    /\ \A t \in DOMAIN tasks :
         LET ctx == HandleResubscribe(Store, Resubscribe(t, h)).resp.ctx
             zero == HandleResubscribe(Store, Resubscribe(t, Str(<<"0">>))).resp.ctx
         IN /\ ctx.cursor = 0
            /\ IsWholeLog(Finish(ctx, Store).frames, heap[tasks[t]])
            /\ Finish(ctx, Store) = Finish(zero, Store)
    /\ \A newId \in IdPool :
         LET made == HandleMessageStream(Store,
                       Post(Envelope(Str("r1"), "message/stream", Hi), h), newId)
             zero == HandleMessageStream(Store,
                       Post(Envelope(Str("r1"), "message/stream", Hi), Str(<<"0">>)), newId)
         IN /\ made.resp.ctx.cursor = 0
            /\ IsWholeLog(Finish(made.resp.ctx, made).frames, made.heap[Len(made.heap)])
            /\ Finish(made.resp.ctx, made) = Finish(zero.resp.ctx, zero)

\* a tasks/resubscribe without Last-Event-ID on a completed async task has
\* ended after replaying its three events
C20_Witness ==
  \E ctx \in EndedCtx :
    /\ ctx.method = "tasks/resubscribe"
    /\ ctx.cursor = 0
    /\ FrameIds(ctx.frames) = <<1, 2, 3>>
    /\ IsWholeLog(ctx.frames, ctx.atBuild)

(***************************************************************************)
(* TaskStore.update, field by field.                                       *)
(***************************************************************************)
\* the values of the TaskState type
TaskStates ==
  {"accepted", "queued", "running", "succeeded", "failed", "canceled", "expired"}

\* options objects: every choice of the properties supplied, with progress 0
\* and the empty message among the values
OptionSpace ==
  {[k \in D |-> full[k]] :
     D \in SUBSET {"progress", "message", "final", "result"},
     full \in [progress : {0, 50}, message : {"", "m"}, final : BOOLEAN,
               result : {Obj([status |-> Str("done")])}]}

\* what update(taskId, state, options) is to leave of the record before
Updated(before, state, options) ==
  LET progress == IF "progress" \in DOMAIN options THEN options.progress ELSE before.progress
      message == IF "message" \in DOMAIN options THEN options.message ELSE before.message
  IN [taskId |-> before.taskId,
      state |-> state,
      progress |-> progress,
      message |-> message,
      result |-> IF "result" \in DOMAIN options THEN options.result ELSE before.result,
      events |-> Append(before.events,
                   [id |-> Len(before.events) + 1,
                    state |-> state,
                    progress |-> progress,
                    message |-> message,
                    final |-> "final" \in DOMAIN options /\ options.final])]

\* C21: update on an existing task overwrites state, overwrites progress,
\* message and result only when they are supplied (an omitted one keeps its
\* prior value), and appends exactly one event, carrying the record's fields
\* after the update, whose final flag is the one supplied, false when none
\* is, and never derived from the new state; the other records and the Map
\* are left alone.  Checked for every stored task of every reachable state,
\* every state and every options object, and for the update a timer makes.
C21_UpdateOverwritesSuppliedOnly ==
  /\ [](\A key \in DOMAIN tasks, state \in TaskStates, options \in OptionSpace :
          LET ref == tasks[key]
              S == StoreUpdate(Store, key, state, options)
          IN /\ S.tasks = tasks
             /\ S.heap = [heap EXCEPT ![ref] = Updated(heap[ref], state, options)]
             /\ (state \in TERMINAL_STATES /\ "final" \notin DOMAIN options) =>
                  ~S.heap[ref].events[Len(S.heap[ref].events)].final)
  /\ [][(last'.kind = "timer" /\ timers # <<>> /\ Head(timers) \in DOMAIN tasks) =>
          heap' = [heap EXCEPT ![tasks[Head(timers)]] =
                     Updated(heap[tasks[Head(timers)]], "succeeded",
                       [progress |-> 100, message |-> "completed", final |-> TRUE,
                        result |-> ResultPayload("message/send", Head(timers))])]]_vars

\* a timer has just updated a running task: its record kept its progress 40
\* event and gained the succeeded one, and its result is set
C21_Witness ==
  /\ last.kind = "timer"
  /\ last.taskId \in DOMAIN tasks
  /\ LET task == heap[tasks[last.taskId]]
     IN /\ Len(task.events) = 3
        /\ task.events[2].progress = 40
        /\ task.events[3].final
        /\ task.result # Undefined

\* the record's snapshot fields are those of the last event of its log
SnapshotIsLastEvent(task) ==
  /\ task.events # <<>>
  /\ LET e == task.events[Len(task.events)]
     IN /\ task.state = e.state
        /\ task.progress = e.progress
        /\ task.message = e.message

\* C22: updates are atomic for every observer.  The states of the model are
\* the points at which a request handler, a timer callback or a resumed
\* stream can run (a handler runs from its first store access to its return
\* or first await without yielding); in each of them, for every record, the
\* fields state, progress and message equal those of the last event of its
\* log, and every update that could run next leaves it so.
C22_SnapshotMatchesLastEvent ==
  /\ \A ref \in 1..Len(heap) : SnapshotIsLastEvent(heap[ref])
  /\ \A ctx \in AllCtx : SnapshotIsLastEvent(heap[ctx.ref])
  /\ \A key \in DOMAIN tasks, state \in TaskStates, options \in OptionSpace :
       SnapshotIsLastEvent(StoreUpdate(Store, key, state, options).heap[tasks[key]])

\* a timer has just completed the task of a stream that is suspended between
\* two frame writes
C22_Witness ==
  /\ last.kind = "timer"
  /\ \E i \in 1..Len(streams) :
       /\ streams[i].pos >= 1
       /\ streams[i].phase = "loop"
       /\ heap[streams[i].ref].taskId = last.taskId
       /\ tasks[last.taskId] = streams[i].ref
       /\ heap[streams[i].ref].state = "succeeded"
       /\ Len(heap[streams[i].ref].events) > Len(streams[i].atBuild.events)

(***************************************************************************)
(* parseJsonRpcRequest on decoded JSON values of every shape.              *)
(***************************************************************************)
\* the JSON object with the properties of f whose value is not undefined
JsonObject(f) == Obj([k \in {x \in DOMAIN f : f[x] # Undefined} |-> f[k]])

\* decoded JSON values: objects with each of jsonrpc, method, id and params
\* absent or of several types, and values that are not objects
ParseInputs ==
  {JsonObject([jsonrpc |-> j, method |-> m, id |-> i, params |-> p]) :
     j \in {Undefined, Str("2.0"), Str("1.0"), Num(2), Null},
     m \in {Undefined, Str("tasks/get"), Str(""), Num(1), Null, Bool(TRUE)},
     i \in {Undefined, Str("r1"), Str(""), Num(7), Num(0), Null, Bool(FALSE),
            Arr(<<>>), Obj(<<>>)},
     p \in {Undefined, Obj(<<>>)}}
  \cup {Null, Bool(FALSE), Bool(TRUE), Num(0), Num(7), Str(""), Str("2.0"),
        Arr(<<>>), Arr(<<Str("2.0")>>)}

\* envelopes rpcResult and rpcError build, as built and as sent
FormattedEnvelopes ==
  LET built ==
        {rpcResult(id, result) :
           id \in ReqIds, result \in {Undefined, Null, Obj([method |-> Str("tasks/get")])}}
        \cup {rpcError(id, code, "Task not found", "A2A_TASK_NOT_FOUND", detail) :
                id \in ReqIds, code \in {-32700, -32004}, detail \in {Undefined, Str("d")}}
  IN built \cup {Wire(e) : e \in built}

\* C23: parseJsonRpcRequest returns its input when the input is an object
\* whose jsonrpc is "2.0", whose method is a string and whose id is a
\* string, a number or null, and returns null for every other input (an
\* absent id included); it returns null for every envelope rpcResult or
\* rpcError builds, those the server has just sent among them.
C23_ParseAcceptsRequestEnvelopesOnly ==
  /\ \A input \in ParseInputs \cup {r.body : r \in {x \in RequestSpace : x.body.t # "malformed"}} :
       LET valid ==
             /\ input.t = "object"
             /\ "jsonrpc" \in DOMAIN input.v /\ input.v.jsonrpc = Str("2.0")
             /\ "method" \in DOMAIN input.v /\ input.v.method.t = "string"
             /\ "id" \in DOMAIN input.v /\ input.v.id.t \in {"string", "number", "null"}
       IN parseJsonRpcRequest(input) = (IF valid THEN input ELSE Null)
  /\ \A e \in FormattedEnvelopes : parseJsonRpcRequest(e) = Null
  /\ (last.kind = "route" /\ IsEnvelope(last.resp)) =>
       parseJsonRpcRequest(last.resp.body) = Null
  /\ (AnsweredPost /\ last.req.body.t # "malformed") =>
       (Dispatch(config, last.req) = "invalidRequest"
          <=> parseJsonRpcRequest(last.req.body) = Null)

\* the server has answered a valid request envelope with an error envelope
\* that carries the request's id, and parse rejects that answer
C23_Witness ==
  /\ AnsweredPost
  /\ parseJsonRpcRequest(last.req.body) = last.req.body
  /\ IsEnvelope(last.resp)
  /\ Field(last.resp.body, "error") # Undefined
  /\ Field(last.resp.body, "id") = Str("r1")
  /\ parseJsonRpcRequest(last.resp.body) = Null

(***************************************************************************)
(* message/send in semantic bridge mode.                                   *)
(***************************************************************************)
\* message/send requests that are not async, with each request id
SemanticSpace ==
  {Post(Envelope(id, "message/send", p), Undefined) : id \in ReqIds, p \in SendParams}

\* params.message.parts has a part whose text is a string that is not blank
HasTextPart(params) ==
  LET parts == Field(Field(params, "message"), "parts")
  IN /\ parts.t = "array"
     /\ \E i \in 1..Len(parts.v) :
          /\ Field(parts.v[i], "text").t = "string"
          /\ Squeeze(Field(parts.v[i], "text").v) # <<>>

MachineCode(resp) == Field(Field(Field(resp.body, "error"), "data"), "code")
Detail(resp) == Field(Field(Field(resp.body, "error"), "data"), "detail")

\* the response to r and the store are what the claim says of a semantic
\* message/send for which the responder, if called, does out
SemanticOutcomeOf(r, out) ==
  LET h == Handle(config, Store, r, TaskA, out)
      params == Field(r.body, "params")
  IN /\ h.heap = heap /\ h.tasks = tasks /\ h.arm = <<>>
     /\ IsEnvelope(h.resp)
     /\ Field(h.resp.body, "id") = Field(r.body, "id")
     /\ IF ~HasTextPart(params)
          THEN /\ IsRpcError(h.resp, 400, -32602)
               /\ MachineCode(h.resp) = Str("A2A_SEMANTIC_PROMPT_MISSING")
               /\ h = Handle(config, Store, r, TaskA, NoOutcome)
        ELSE IF config.semanticResponderUrl # Undefined /\ ~out.ok
          THEN /\ IsRpcError(h.resp, 502, -32603)
               /\ MachineCode(h.resp) = Str("A2A_SEMANTIC_BRIDGE_ERROR")
               /\ Detail(h.resp) = Str(out.text)
        ELSE /\ h.resp.status = 200
             /\ Field(h.resp.body, "result") # Undefined

\* C24: in semantic mode a message/send that is not async and has no text
\* part that is not blank is answered 400 with -32602 and
\* A2A_SEMANTIC_PROMPT_MISSING whatever the responder would do; a failure of
\* the responder is answered 502 with -32603, A2A_SEMANTIC_BRIDGE_ERROR and
\* the failure's message as detail; in every outcome no task is created and
\* the envelope carries the request's id.
C24_SemanticSendOutcomes ==
  config.semanticMode =>
    \A r \in SemanticSpace, out \in ResponderOutcomes : SemanticOutcomeOf(r, out)

\* the same for the requests whose parts, when present, are an array
SemanticOutcomesOfIterableParts ==
  config.semanticMode =>
    \A r \in SemanticSpace, out \in ResponderOutcomes :
      ~extractPromptText(Field(r.body, "params")).throws => SemanticOutcomeOf(r, out)

\* the responder has failed and the request has been answered 502
BridgeErrorAnswered ==
  /\ last.kind = "route"
  /\ IsRpcError(last.resp, 502, -32603)
  /\ Detail(last.resp) = Str("semantic responder HTTP 500")
  /\ heap # <<>>

(***************************************************************************)
(* The states tasks/get reports of an async task.                          *)
(***************************************************************************)
\* the state of the record stored under x, "none" when there is none
StoredState(x) == IF x \in DOMAIN tasks THEN heap[tasks[x]].state ELSE "none"

\* result.status.state of the answer of tasks/get on x, "none" for an error
GetStateOf(x) ==
  LET resp == HandleTasksGet(Store, GetRequest(Str("r1"), x)).resp
  IN IF resp.status = 200
       THEN Field(Field(Field(resp.body, "result"), "status"), "state")
       ELSE Str("none")

\* tasks/get reports the state of the stored record, which is never accepted,
\* and is running when the async message/send that created it is answered
AsyncTaskNeverAccepted ==
  \A x \in IdPool :
    /\ \E s \in {GetStateOf(x)} : s = Str(StoredState(x))
    /\ StoredState(x) \in {"none", "running", "succeeded"}
    /\ AcceptedAsync(x) => StoredState(x) = "running"

\* C25: the task of an async message/send is running when the response is
\* sent; tasks/get on its taskId returns running or succeeded at any time,
\* never accepted, and once it has returned succeeded it never returns
\* running again.
C25_AsyncStateNeverGoesBack ==
  /\ []AsyncTaskNeverAccepted
  /\ [][\A x \in IdPool :
          (StoredState(x) = "succeeded" /\ TransitionRan(heap[tasks[x]]))
            => StoredState(x)' # "running"]_vars

(***************************************************************************)
(* The frames of one event stream.                                         *)
(***************************************************************************)
StrictlyIncreasing(ids) == \A i \in 1..(Len(ids) - 1) : ids[i] < ids[i + 1]

\* the stream wrote a synthetic frame
WroteSynthetic(ctx) == ctx.phase # "loop" /\ Len(ctx.frames) = ctx.pos + 1

\* C26: within one event stream the frame ids are strictly increasing, the
\* synthetic final frame included, also when a deferred transition appends
\* an event to the task while the stream is suspended between two frame
\* writes: for every stream of every behaviour at each of its suspensions
\* and at its end, and for a stream opened in any reachable state with any
\* Last-Event-ID and run to its end.
C26_FrameIdsStrictlyIncreasing ==
  /\ \A ctx \in AllCtx : StrictlyIncreasing(FrameIds(ctx.frames))
  /\ \A r \in CursorProbes :
       StrictlyIncreasing(FrameIds(Finish(HandleResubscribe(Store, r).resp.ctx, Store).frames))

\* a stream that captured the two events of a running async task has ended
\* with frames 1, 2 and a synthetic frame 3: the transition ran while it
\* was suspended
C26_Witness ==
  \E ctx \in EndedCtx :
    /\ Len(ctx.atBuild.events) = 2
    /\ ctx.atBuild.state = "running"
    /\ WroteSynthetic(ctx)
    /\ FrameIds(ctx.frames) = <<1, 2, 3>>

\* the frame is the final-flagged copy of the last event of the task's log,
\* and that event is final itself
IsLastEventOf(frame, task) ==
  LET e == task.events[Len(task.events)]
  IN /\ frame.final
     /\ frame.id = e.id
     /\ frame.state = e.state
     /\ frame.progress = e.progress
     /\ frame.message = e.message
     /\ frame.taskId = task.taskId
     /\ e.final

\* C27: a synthetic final frame is indistinguishable from the task's real
\* last event: when a stream has just written one, its id, state, progress
\* and message are those of the last event of the task's log at that
\* moment, and that event has final = true.  For every stream of every
\* behaviour, and for a stream opened in any reachable state with any
\* Last-Event-ID and run to its end.
C27_SyntheticFrameIsLastEvent ==
  /\ \A ctx \in LastCtx :
       ctx.phase = "synthetic" =>
         IsLastEventOf(ctx.frames[Len(ctx.frames)], heap[ctx.ref])
  /\ \A r \in CursorProbes :
       LET ctx == Finish(HandleResubscribe(Store, r).resp.ctx, Store)
       IN WroteSynthetic(ctx) =>
            IsLastEventOf(ctx.frames[Len(ctx.frames)], heap[ctx.ref])

\* a stream built on a running task has just written a synthetic frame
C27_Witness ==
  \E ctx \in LastCtx :
    /\ ctx.phase = "synthetic"
    /\ ctx.atBuild.state = "running"
    /\ ctx.frames[Len(ctx.frames)].state = "succeeded"
    /\ ctx.frames[Len(ctx.frames)].progress = 100

\* a stream that has ended on a record object that is terminal by then
\* ended with a final frame carrying the record's state
StreamEndsFinalWhenRecordTerminal ==
  \A ctx \in EndedCtx :
    heap[ctx.ref].state \in TERMINAL_STATES =>
      /\ EndsFinal(ctx)
      /\ ctx.frames[Len(ctx.frames)].state = heap[ctx.ref].state

\* C28: a stream ends in a frame with final = true whenever the task it was
\* opened on is terminal by the time its last captured frame has been
\* written, not only when it was terminal at stream start: a
\* tasks/resubscribe that captured the log of an async task before the
\* deferred transition, which then fired while the stream was suspended,
\* ends with frame 3, state succeeded, final = true.
C28_StreamEndsFinalWhenTaskTerminal ==
  \A ctx \in EndedCtx :
    StoredState(ctx.atBuild.taskId) \in TERMINAL_STATES =>
      /\ EndsFinal(ctx)
      /\ ctx.frames[Len(ctx.frames)].state = StoredState(ctx.atBuild.taskId)
      /\ (ctx.atBuild.state = "running" /\ Len(ctx.atBuild.events) = 2 /\ ctx.cursor = 0) =>
           /\ FrameIds(ctx.frames) = <<1, 2, 3>>
           /\ ctx.frames[3].state = "succeeded"

\* the stream of a running async task has ended with frame 3, succeeded
LateTransitionStreamEnded ==
  \E ctx \in EndedCtx :
    /\ ctx.method = "tasks/resubscribe"
    /\ ctx.atBuild.state = "running"
    /\ FrameIds(ctx.frames) = <<1, 2, 3>>
    /\ ctx.frames[3].final

\* the progress values of a log never decrease, lie in 0..100, and are 100
\* only on succeeded events
ProgressMonotone(events) ==
  /\ \A i \in 1..Len(events) :
       /\ events[i].progress \in 0..100
       /\ events[i].progress = 100 => events[i].state = "succeeded"
  /\ \A i \in 1..(Len(events) - 1) : events[i].progress <= events[i + 1].progress

\* a log has at most one final event, and it is its last one
FinalOnlyLast(events) ==
  \A i \in 1..Len(events) : events[i].final => i = Len(events)

\* C29: in every reachable state, for every task, the progress values along
\* the event log are non-decreasing and lie in 0..100, progress 100 occurs
\* only on events whose state is succeeded, and the log has at most one
\* event with final = true, which is its last event.
C29_LogProgressAndFinal ==
  \A ref \in 1..Len(heap) :
    /\ ProgressMonotone(heap[ref].events)
    /\ FinalOnlyLast(heap[ref].events)

\* the part of C29 about progress, for every record
LogProgressMonotone ==
  \A ref \in 1..Len(heap) : ProgressMonotone(heap[ref].events)

====
